---- MODULE Spec2Model ----
(***************************************************************************)
(* A model of jfFileSystem (src/index.js): the synchronous file system     *)
(* helper with scandir, rmdir, copy, mkdir, write, findUp and log.         *)
(*                                                                         *)
(* The file system is a tree of entries below "/".  A path is the sequence *)
(* of its segment names; the string node's `path.join` builds from it is   *)
(* PathStr(p), a sequence of character codes, so that Array.sort's string  *)
(* order is the order of the code, not the order of the segments.          *)
(***************************************************************************)
EXTENDS Integers, Sequences, FiniteSets

VARIABLES
    fs,         \* the file system: path -> kind of entry (or content of a file)
    pre,        \* the file system when the last call started
    call,       \* the last call: its operation and its arguments
    ret,        \* what the last call returned
    err,        \* "" or the error code the last call threw
    trace,      \* the mutating fs primitives and the log events of the last call, in order
    observers,  \* the handlers registered with on('log', ...), in registration order
    notified,   \* the handler invocations of the last call, in order
    sink        \* the console lines of the last call, in order

vars == <<fs, pre, call, ret, err, trace, observers, notified, sink>>

-----------------------------------------------------------------------------
(* Bounds of the model *)

MaxDepth == 3

MaxEntries == 3

MaxLevel == 1

MaxObservers == 2

-----------------------------------------------------------------------------
(* Paths and their strings *)

Names == {"a", "a.b"}

\* The character codes of a segment name ('a' 97, 'b' 98, '.' 46).
Chars(n) == IF n = "a" THEN <<97>> ELSE <<97, 46, 98>>

Sep == 47

Root == <<>>

Paths == UNION {[1..n -> Names] : n \in 0..MaxDepth}

Join(p, n) == Append(p, n)

Dirname(p) == IF p = Root THEN Root ELSE SubSeq(p, 1, Len(p) - 1)

Basename(p) == IF p = Root THEN "" ELSE p[Len(p)]

RECURSIVE PathStr(_)
PathStr(p) ==
    IF p = Root THEN <<Sep>>
    ELSE IF Len(p) = 1 THEN <<Sep>> \o Chars(p[1])
    ELSE PathStr(Dirname(p)) \o <<Sep>> \o Chars(Basename(p))

IsPrefix(p, q) == Len(p) <= Len(q) /\ SubSeq(q, 1, Len(p)) = p

\* path.relative(from, to) for a `to` below `from`: the segments after `from`.
Relative(from, to) == SubSeq(to, Len(from) + 1, Len(to))

-----------------------------------------------------------------------------
(* The file system *)

Contents == {"c1", "c2"}

\* "link" is a symlink whose target (outside the tree) exists and is no
\* directory, "dlink" a dangling symlink, "other" a socket or fifo.
LeafKinds == Contents \cup {"dir", "link", "dlink", "other"}

Kind(f, p) == IF p \in Paths THEN f[p] ELSE "none"

IsRegular(f, p) == Kind(f, p) \in Contents

IsLink(f, p) == Kind(f, p) \in {"link", "dlink"}

\* fs.existsSync follows symlinks: a dangling link does not exist.
Exists(f, p) == Kind(f, p) \notin {"none", "dlink"}

\* fs.statSync(p).isDirectory() behind exists(p).
IsDirectory(f, p) == IF Exists(f, p) THEN Kind(f, p) = "dir" ELSE FALSE

Entries(f) == Cardinality({p \in Paths \ {Root} : f[p] # "none"})

EmptyFs == [p \in Paths |-> IF p = Root THEN "dir" ELSE "none"]

\* The paths a caller is given: the entries of the tree and the missing
\* children of its directories.
Near(f, p) == Kind(f, Dirname(p)) = "dir"

\* The orders fs.readdirSync may list the children of a directory in.
Orders == {<<"a", "a.b">>, <<"a.b", "a">>}

RECURSIVE Present(_, _, _)
Present(f, dir, names) ==
    IF names = <<>> THEN <<>>
    ELSE IF Kind(f, Join(dir, Head(names))) # "none"
         THEN <<Head(names)>> \o Present(f, dir, Tail(names))
         ELSE Present(f, dir, Tail(names))

Readdir(f, dir, ord) == Present(f, dir, ord)

-----------------------------------------------------------------------------
(* Strings: the order of Array.prototype.sort() *)

RECURSIVE StrLess(_, _)
StrLess(s, t) ==
    IF t = <<>> THEN FALSE
    ELSE IF s = <<>> THEN TRUE
    ELSE IF Head(s) # Head(t) THEN Head(s) < Head(t)
    ELSE StrLess(Tail(s), Tail(t))

PathLess(p, q) == StrLess(PathStr(p), PathStr(q))

RECURSIVE Insert(_, _)
Insert(p, s) ==
    IF s = <<>> THEN <<p>>
    ELSE IF PathLess(Head(s), p) THEN <<Head(s)>> \o Insert(p, Tail(s))
    ELSE <<p>> \o s

RECURSIVE InsertAll(_, _)
InsertAll(s, acc) ==
    IF s = <<>> THEN acc ELSE InsertAll(Tail(s), Insert(Head(s), acc))

UnsortedFiles(s) == s

SortFiles(s) == InsertAll(s, <<>>)

-----------------------------------------------------------------------------
(* Filters *)

\* "none" is no filter, "ext" the RegExp /\.b$/, "noext" the function
\* p => !p.endsWith('.b').
Filters == {"none", "ext", "noext"}

EndsDotB(s) == Len(s) >= 2 /\ s[Len(s) - 1] = 46 /\ s[Len(s)] = 98

Matches(filter, p) ==
    IF filter = "ext" THEN EndsDotB(PathStr(p)) ELSE ~EndsDotB(PathStr(p))

\* !filter || (typeof filter === 'function' && filter(dir))
\*         || (filter instanceof RegExp && filter.test(dir))
Accepts(filter, p) == filter = "none" \/ Matches(filter, p)

-----------------------------------------------------------------------------
(* log *)

Log(level, label, p, n) == [k |-> "log", level |-> level, label |-> label, p |-> p, n |-> n]

Sys(k, p) == [k |-> k, level |-> "", label |-> "", p |-> p, n |-> 0]

IsLog(e) == e.k = "log"

-----------------------------------------------------------------------------
(* scandir *)

MissingSilent(dir) == <<>>

\* this.log('warn', '', 'Directorio no encontrado: %s', dir)
Missing(dir) == <<Log("warn", "notfound", dir, 0)>>

ScanVisitsLeaves(f, filter, dir) == Kind(f, dir) = "dir" \/ Accepts(filter, dir)

\* The test scandir makes of the path it is called on, whatever its kind.
ScanVisits(f, filter, dir) == Accepts(filter, dir)

RECURSIVE Scandir(_, _, _, _)
RECURSIVE ScanChildren(_, _, _, _, _)

\* The forEach of scandir: the files and the events of the children, in listing order.
ScanChildren(f, dir, names, filter, ord) ==
    IF names = <<>> THEN [files |-> <<>>, trace |-> <<>>]
    ELSE LET one == Scandir(f, Join(dir, Head(names)), filter, ord)
             rest == ScanChildren(f, dir, Tail(names), filter, ord)
         IN [files |-> one.files \o rest.files, trace |-> one.trace \o rest.trace]

Scandir(f, dir, filter, ord) ==
    IF ~ScanVisits(f, filter, dir) THEN [files |-> <<>>, trace |-> <<>>]
    ELSE LET r == IF ~Exists(f, dir)
                  THEN [files |-> <<>>, trace |-> Missing(dir)]
                  ELSE IF Kind(f, dir) = "dir"
                  THEN ScanChildren(f, dir, Readdir(f, dir, ord), filter, ord)
                  ELSE IF IsRegular(f, dir)
                  THEN [files |-> <<dir>>, trace |-> <<>>]
                  ELSE IF ~IsLink(f, dir)
                  THEN [files |-> <<>>, trace |-> <<Log("info", "unsupported", dir, 0)>>]
                  ELSE [files |-> <<>>, trace |-> <<>>]
         IN [files |-> SortFiles(r.files), trace |-> r.trace]

-----------------------------------------------------------------------------
(* mkdir, write, copy *)

Result(f, t, e) == [fs |-> f, trace |-> t, err |-> e]

\* fs.mkdirSync(dir): it fails on a path that is there, whatever it is, and
\* on a path whose parent is no directory.
MkdirSync(f, dir) ==
    IF Kind(f, dir) # "none" THEN Result(f, <<>>, "EEXIST")
    ELSE IF Kind(f, Dirname(dir)) # "dir" THEN Result(f, <<>>, "ENOENT")
    ELSE Result([f EXCEPT ![dir] = "dir"], <<Sys("mkdir", dir)>>, "")

RECURSIVE MkdirIfMissing(_, _)
MkdirIfMissing(f, dir) ==
    IF Exists(f, dir) THEN Result(f, <<>>, "")
    ELSE LET up == MkdirIfMissing(f, Dirname(dir))
         IN IF up.err # "" THEN up
            ELSE LET made == MkdirSync(up.fs, dir)
                 IN IF made.err # "" THEN Result(made.fs, up.trace, made.err)
                    ELSE Result(made.fs,
                                up.trace \o made.trace \o <<Log("info", "created", dir, 0)>>,
                                "")

MkdirFlat(f, dir) ==
    IF IsDirectory(f, dir) THEN Result(f, <<>>, "")
    ELSE LET made == MkdirSync(f, dir)
         IN IF made.err # "" THEN made
            ELSE Result(made.fs, made.trace \o <<Log("info", "created", dir, 0)>>, "")

RECURSIVE Mkdir(_, _)
\* mkdir(dir)
Mkdir(f, dir) ==
    IF IsDirectory(f, dir) THEN Result(f, <<>>, "")
    ELSE LET up == Mkdir(f, Dirname(dir))
         IN IF up.err # "" THEN up
            ELSE LET made == MkdirSync(up.fs, dir)
                 IN IF made.err # "" THEN Result(made.fs, up.trace, made.err)
                    ELSE Result(made.fs,
                                up.trace \o made.trace \o <<Log("info", "created", dir, 0)>>,
                                "")

\* fs.writeFileSync(filename, content) once the parent is a directory: it
\* follows a symlink (and creates the target of a dangling one), and fails on
\* a directory and on a socket.
WriteFileSync(f, filename, content) ==
    LET k == Kind(f, filename)
    IN IF k = "dir" THEN Result(f, <<>>, "EISDIR")
       ELSE IF k = "other" THEN Result(f, <<>>, "ENXIO")
       ELSE IF k \in {"link", "dlink"}
            THEN Result([f EXCEPT ![filename] = "link"], <<Sys("write", filename)>>, "")
       ELSE Result([f EXCEPT ![filename] = content], <<Sys("write", filename)>>, "")

Write(f, filename, content) ==
    LET m == Mkdir(f, Dirname(filename))
    IN IF m.err # "" THEN m
       ELSE LET t == m.trace \o <<Log("info", "writing", filename, 1)>>
                w == WriteFileSync(m.fs, filename, content)
            IN Result(w.fs, t \o w.trace, w.err)

CopyTargetFlat(fromDir, toDir, file) == Join(toDir, Basename(file))

\* The path copy writes a scanned file to.
CopyTarget(fromDir, toDir, file) ==
    IF file = fromDir THEN Join(toDir, Basename(file))
    ELSE toDir \o Relative(fromDir, file)

RECURSIVE CopyFiles(_, _, _, _)
CopyFiles(f, files, fromDir, toDir) ==
    IF files = <<>> THEN Result(f, <<>>, "")
    ELSE LET file == Head(files)
             one == Write(f, CopyTarget(fromDir, toDir, file), Kind(f, file))
         IN IF one.err # "" THEN one
            ELSE LET rest == CopyFiles(one.fs, Tail(files), fromDir, toDir)
                 IN Result(rest.fs, one.trace \o rest.trace, rest.err)

Copy(f, fromDir, toDir, ord) ==
    LET sc == Scandir(f, fromDir, "none", ord)
        r == CopyFiles(f, sc.files, fromDir, toDir)
    IN Result(r.fs, sc.trace \o r.trace, r.err)

-----------------------------------------------------------------------------
(* rmdir *)

Removal(f, c, t, e) == [fs |-> f, count |-> c, trace |-> t, err |-> e]

HasEntries(f, dir) == \E n \in Names : Kind(f, Join(dir, n)) # "none"

\* fs.rmdirSync(dir): only an empty directory that is not "/" can be removed;
\* "/" is refused before its entries are looked at.
RmdirSync(f, dir) ==
    IF dir = Root THEN Result(f, <<>>, "EBUSY")
    ELSE IF HasEntries(f, dir) THEN Result(f, <<>>, "ENOTEMPTY")
    ELSE Result([f EXCEPT ![dir] = "none"], <<Sys("rmdir", dir)>>, "")

Assign(count, removed) == removed

\* _count += this.rmdir(...)
Add(count, removed) == count + removed

RmVisitsLeaves(f, filter, dir) == Kind(f, dir) = "dir" \/ Accepts(filter, dir)

\* The test rmdir makes of the path it is called on, whatever its kind.
RmVisits(f, filter, dir) == Accepts(filter, dir)

RECURSIVE Rmdir(_, _, _, _, _)
RECURSIVE RmChildren(_, _, _, _, _, _)

\* The forEach of rmdir over the listing `names`, from what the children before left.
RmChildren(acc, dir, names, level, filter, ord) ==
    IF names = <<>> THEN acc
    ELSE LET one == Rmdir(acc.fs, Join(dir, Head(names)), level, filter, ord)
             now == Removal(one.fs, Add(acc.count, one.count), acc.trace \o one.trace, one.err)
         IN IF one.err # "" THEN now
            ELSE RmChildren(now, dir, Tail(names), level, filter, ord)

Rmdir(f, dir, level, filter, ord) ==
    IF ~RmVisits(f, filter, dir) THEN Removal(f, 0, <<>>, "")
    ELSE IF Kind(f, dir) = "none" THEN Removal(f, 0, <<>>, "ENOENT")
    ELSE LET said(c) == IF level > 0 THEN <<Log("info", "removed", Root, c)>> ELSE <<>>
         IN IF Kind(f, dir) = "dir"
            THEN LET t1 == IF level > 0 THEN <<Log("info", "removing", dir, 0)>> ELSE <<>>
                     ch == RmChildren(Removal(f, 0, t1, ""), dir, Readdir(f, dir, ord),
                                      level - 1, filter, ord)
                 IN IF ch.err # "" THEN ch
                    ELSE LET sc == Scandir(ch.fs, dir, "none", ord)
                             t2 == ch.trace \o sc.trace
                         IN IF sc.files # <<>>
                            THEN Removal(ch.fs, ch.count, t2 \o said(ch.count), "")
                            ELSE LET rm == RmdirSync(ch.fs, dir)
                                 IN IF rm.err # ""
                                    THEN Removal(rm.fs, ch.count, t2, rm.err)
                                    ELSE Removal(rm.fs, ch.count,
                                                 t2 \o rm.trace \o said(ch.count), "")
            ELSE IF IsRegular(f, dir) \/ IsLink(f, dir)
                 THEN Removal([f EXCEPT ![dir] = "none"], 1,
                              <<Sys("unlink", dir)>> \o said(1), "")
            ELSE Removal(f, 0, said(0), "")

-----------------------------------------------------------------------------
(* findUp *)

\* The directories a caller may pass: a path, or a path and a ".." after it,
\* which path.resolve removes.
Inputs == Paths \cup {Append(p, "..") : p \in {q \in Paths : Len(q) < MaxDepth}}

RECURSIVE Resolve(_)
Resolve(segs) ==
    IF segs = <<>> THEN Root
    ELSE LET up == Resolve(SubSeq(segs, 1, Len(segs) - 1))
             s == segs[Len(segs)]
         IN IF s = ".." THEN Dirname(up) ELSE Join(up, s)

RECURSIVE Climb(_, _, _)
Climb(f, p, filename) ==
    IF p # Root /\ ~Exists(f, Join(p, filename))
    THEN Climb(f, Dirname(p), filename)
    ELSE p

NotFound == [found |-> FALSE, path |-> Root]

Found(p) == [found |-> TRUE, path |-> p]

FindUpBelowRoot(f, directory, filename, asFile) ==
    LET top == Climb(f, Resolve(directory), filename)
    IN IF top # Root
       THEN IF asFile THEN Found(Join(top, filename)) ELSE Found(top)
       ELSE NotFound

FindUp(f, directory, filename, asFile) ==
    LET top == Climb(f, Resolve(directory), filename)
    IN IF Exists(f, Join(top, filename))
       THEN IF asFile THEN Found(Join(top, filename)) ELSE Found(top)
       ELSE NotFound

-----------------------------------------------------------------------------
(* log: the handlers of the 'log' event and the console *)

\* "count" only counts the events, "readme" is the handler of the README (it
\* styles the arguments of an error and deletes the label of anything else),
\* "translate" replaces the label by its translation: data.label = tr[data.label].
Handlers == {"count", "readme", "translate"}

Levels == {"info", "warn", "error", "debug"}

\* tr[label]: nothing for a label that was deleted.
Translated(label) == IF label = "" THEN "" ELSE "tr"

Handle(h, data) ==
    IF h = "readme"
    THEN IF data.level = "error" THEN [data EXCEPT !.styled = TRUE]
         ELSE [data EXCEPT !.label = ""]
    ELSE IF h = "translate"
    THEN [data EXCEPT !.label = Translated(data.label)]
    ELSE data

\* The handlers up to the first that leaves no label.
RECURSIVE NotifyUntilSuppressed(_, _, _)
NotifyUntilSuppressed(obs, i, data) ==
    IF i > Len(obs) \/ data.label = "" THEN [data |-> data, notes |-> <<>>]
    ELSE LET r == NotifyUntilSuppressed(obs, i + 1, Handle(obs[i], data))
         IN [data |-> r.data,
             notes |-> <<[who |-> i, handler |-> obs[i], saw |-> data]>> \o r.notes]

\* this.emit('log', _data): the handlers run in registration order on one record.
RECURSIVE Notify(_, _, _)
Notify(obs, i, data) ==
    IF i > Len(obs) THEN [data |-> data, notes |-> <<>>]
    ELSE LET r == Notify(obs, i + 1, Handle(obs[i], data))
         IN [data |-> r.data,
             notes |-> <<[who |-> i, handler |-> obs[i], saw |-> data]>> \o r.notes]

Printed(data) == data.label # ""

LogCall(obs, level, name, label, p, n) ==
    LET data == [level |-> level, label |-> label,
                 name |-> IF name = "" THEN "jfFileSystem" ELSE name,
                 p |-> p, n |-> n, styled |-> FALSE]
        r == Notify(obs, 1, data)
    IN [data |-> r.data, notes |-> r.notes,
        lines |-> IF Printed(r.data) THEN <<r.data>> ELSE <<>>]

\* Every log call of a trace, in order.
RECURSIVE LogTrace(_, _)
LogTrace(obs, t) ==
    IF t = <<>> THEN [notes |-> <<>>, lines |-> <<>>]
    ELSE LET rest == LogTrace(obs, Tail(t))
             e == Head(t)
         IN IF ~IsLog(e) THEN rest
            ELSE LET one == LogCall(obs, e.level, "", e.label, e.p, e.n)
                 IN [notes |-> one.notes \o rest.notes, lines |-> one.lines \o rest.lines]

-----------------------------------------------------------------------------
(* The environment builds the tree; the program's calls act on it *)

NoCall == [op |-> "none"]

Ready == call.op = "none"

Init ==
    /\ fs = EmptyFs
    /\ pre = EmptyFs
    /\ call = NoCall
    /\ ret = 0
    /\ err = ""
    /\ trace = <<>>
    /\ observers = <<>>
    /\ notified = <<>>
    /\ sink = <<>>

\* What every call leaves behind: the trace and what the log calls in it did.
Done(c, f, r, e, t) ==
    /\ call' = c
    /\ pre' = fs
    /\ fs' = f
    /\ ret' = r
    /\ err' = e
    /\ trace' = t
    /\ LET l == LogTrace(observers, t)
       IN notified' = l.notes /\ sink' = l.lines
    /\ UNCHANGED observers

\* Something outside the program creates an entry.
Create(p, k) ==
    /\ Entries(fs) < MaxEntries
    /\ p # Root
    /\ fs[p] = "none"
    /\ fs[Dirname(p)] = "dir"
    /\ fs' = [fs EXCEPT ![p] = k]
    /\ pre' = fs'
    /\ UNCHANGED <<call, ret, err, trace, observers, notified, sink>>

\* The caller is between two calls again.
Idle ==
    /\ ~Ready
    /\ Entries(fs) <= MaxEntries
    /\ pre' = fs
    /\ call' = NoCall
    /\ ret' = 0
    /\ err' = ""
    /\ trace' = <<>>
    /\ notified' = <<>>
    /\ sink' = <<>>
    /\ UNCHANGED <<fs, observers>>

Scan(root, filter, ord) ==
    /\ Near(fs, root)
    /\ LET r == Scandir(fs, root, filter, ord)
       IN Done([op |-> "scan", root |-> root, filter |-> filter, ord |-> ord],
               fs, r.files, "", r.trace)

RemoveTree(root, level, filter, ord) ==
    /\ Near(fs, root)
    /\ LET r == Rmdir(fs, root, level, filter, ord)
       IN Done([op |-> "rmdir", root |-> root, level |-> level, filter |-> filter, ord |-> ord],
               r.fs, r.count, r.err, r.trace)

\* The model holds no path longer than MaxDepth: copy is called where it writes none.
Fits(fromDir, toDir, ord) ==
    LET files == Scandir(fs, fromDir, "none", ord).files
    IN \A n \in 1..Len(files) : CopyTarget(fromDir, toDir, files[n]) \in Paths

CopyTree(fromDir, toDir, ord, run) ==
    /\ Near(fs, fromDir)
    /\ Near(fs, toDir)
    /\ Fits(fromDir, toDir, ord)
    /\ LET r == Copy(fs, fromDir, toDir, ord)
       IN Done([op |-> "copy", fromDir |-> fromDir, toDir |-> toDir, ord |-> ord, run |-> run],
               r.fs, 0, r.err, r.trace)

\* `first` is the trace of the first write when this is the second.
WriteFile(filename, content, run, first) ==
    LET r == Write(fs, filename, content)
    IN Done([op |-> "write", filename |-> filename, content |-> content, run |-> run,
             first |-> first],
            r.fs, 0, r.err, r.trace)

EnsureDir(dir) ==
    LET r == Mkdir(fs, dir)
    IN Done([op |-> "mkdir", dir |-> dir], r.fs, 0, r.err, r.trace)

FindUpCall(directory, filename, asFile) ==
    Done([op |-> "findUp", directory |-> directory, filename |-> filename, asFile |-> asFile],
         fs, FindUp(fs, directory, filename, asFile), "", <<>>)

\* log(level, name, label, ...args) called by the user of the class.
Emit(level, name, label) ==
    /\ LET r == LogCall(observers, level, name, label, Root, 0)
       IN /\ call' = [op |-> "log", level |-> level, name |-> name, label |-> label]
          /\ ret' = r.data
          /\ notified' = r.notes
          /\ sink' = r.lines
    /\ pre' = fs
    /\ err' = ""
    /\ trace' = <<>>
    /\ UNCHANGED <<fs, observers>>

\* on('log', handler)
On(h) ==
    /\ Len(observers) < MaxObservers
    /\ observers' = Append(observers, h)
    /\ UNCHANGED <<fs, pre, call, ret, err, trace, notified, sink>>

CreateAny == Ready /\ \E p \in Paths, k \in LeafKinds : Create(p, k)

ScanAny ==
    Ready /\ \E root \in Paths, filter \in Filters, ord \in Orders : Scan(root, filter, ord)

RemoveAny ==
    Ready /\ \E root \in Paths, level \in 0..MaxLevel, filter \in Filters, ord \in Orders :
                RemoveTree(root, level, filter, ord)

CopyAny ==
    Ready /\ \E fromDir \in Paths, toDir \in Paths, ord \in Orders :
                CopyTree(fromDir, toDir, ord, 1)

\* The copy that returned is made once more.
CopyAgain ==
    /\ call.op = "copy"
    /\ call.run = 1
    /\ err = ""
    /\ CopyTree(call.fromDir, call.toDir, call.ord, 2)

WriteAny == Ready /\ \E filename \in Paths, content \in Contents : WriteFile(filename, content, 1, <<>>)

\* The file that was written is written once more.
WriteAgain ==
    /\ call.op = "write"
    /\ call.run = 1
    /\ err = ""
    /\ \E content \in Contents : WriteFile(call.filename, content, 2, trace)

EnsureAny == Ready /\ \E dir \in Paths : EnsureDir(dir)

FindAny ==
    Ready /\ \E directory \in Inputs, filename \in Names, asFile \in BOOLEAN :
                FindUpCall(directory, filename, asFile)

EmitAny ==
    Ready /\ \E level \in Levels, name \in {"", "gen"}, label \in {"", "text"} :
                Emit(level, name, label)

OnAny == Ready /\ \E h \in Handlers : On(h)

Next ==
    \/ CreateAny
    \/ Idle
    \/ ScanAny
    \/ RemoveAny
    \/ CopyAny
    \/ CopyAgain
    \/ WriteAny
    \/ WriteAgain
    \/ EnsureAny
    \/ FindAny
    \/ EmitAny

\* Every call on the tree, with no handler registered.
Spec == Init /\ [][Next]_vars

\* One family of calls each, on every tree the environment can build.
NextScan == CreateAny \/ Idle \/ ScanAny

SpecScan == Init /\ [][NextScan]_vars

NextRemove == CreateAny \/ Idle \/ RemoveAny

SpecRemove == Init /\ [][NextRemove]_vars

NextCopy == CreateAny \/ Idle \/ CopyAny \/ CopyAgain

SpecCopy == Init /\ [][NextCopy]_vars

NextWrite == CreateAny \/ Idle \/ WriteAny \/ WriteAgain \/ EnsureAny

SpecWrite == Init /\ [][NextWrite]_vars

NextFind == CreateAny \/ Idle \/ FindAny

SpecFind == Init /\ [][NextFind]_vars

\* The log channel: handlers are registered, and log is called by the user and by scandir.
NextLog == OnAny \/ EmitAny \/ ScanAny \/ Idle

SpecLog == Init /\ [][NextLog]_vars

-----------------------------------------------------------------------------
(* What the claims speak of *)

Range(s) == {s[i] : i \in 1..Len(s)}

\* The paths from `root` down to `p`, both included.
Chain(root, p) == {SubSeq(p, 1, k) : k \in Len(root)..Len(p)}

\* The regular files reached from `root` through directories only.
ReachableFiles(f, root) ==
    {p \in Paths : /\ IsPrefix(root, p)
                   /\ IsRegular(f, p)
                   /\ \A q \in Chain(root, p) \ {p} : Kind(f, q) = "dir"}

Ascending(s) == \A i \in 1..(Len(s) - 1) : StrLess(PathStr(s[i]), PathStr(s[i + 1]))

LogEvents(t) == {i \in 1..Len(t) : IsLog(t[i])}

Warnings(t) == {i \in LogEvents(t) : t[i].level = "warn"}

-----------------------------------------------------------------------------
(* scandir without a filter *)

\* C1: scan(root) of an existing root with no filter returns exactly the
\* regular files reached from root through directories only, each once, no
\* symlink, directory or unsupported entry among them, in ascending order of
\* their path strings, whatever the order of the directory listings.
ScanListsRegularFilesSorted ==
    (call.op = "scan" /\ call.filter = "none" /\ Exists(fs, call.root)) =>
        /\ Range(ret) = ReachableFiles(fs, call.root)
        /\ Cardinality(Range(ret)) = Len(ret)
        /\ \A p \in Range(ret) : Kind(fs, p) \notin {"dir", "link", "dlink", "other", "none"}
        /\ Ascending(ret)

\* A listing that gives "a" before "a.b", and a result with "/a.b" before "/a/a".
ScanSortsAcrossListing ==
    /\ call.op = "scan"
    /\ call.filter = "none"
    /\ call.root = Root
    /\ call.ord = <<"a", "a.b">>
    /\ ret = << <<"a.b">>, <<"a", "a">> >>

-----------------------------------------------------------------------------
(* scandir with a filter *)

\* C9: the filter of scan is applied to the path of every call of the
\* recursion: a path is in the result exactly when it is a regular file below
\* root and the filter accepts root, every directory on the way and the file.
ScanFilterPrunes ==
    call.op = "scan" =>
        \A p \in Paths :
            p \in Range(ret) <=>
                /\ IsPrefix(call.root, p)
                /\ IsRegular(fs, p)
                /\ \A q \in Chain(call.root, p) : Accepts(call.filter, q)

\* The file /a.b/a passes the filter, its directory /a.b does not, and the
\* scan of "/" returns other files but not this one.
ScanPrunesRejectedDirectory ==
    /\ call.op = "scan"
    /\ call.filter = "noext"
    /\ call.root = Root
    /\ IsRegular(fs, <<"a.b", "a">>)
    /\ Accepts("noext", <<"a.b", "a">>)
    /\ ~Accepts("noext", <<"a.b">>)
    /\ ret = << <<"a">> >>

-----------------------------------------------------------------------------
(* scandir of a path that is not there *)

\* C8 as stated: scan of a root that does not exist, with or without a
\* filter, returns an empty sequence, raises nothing, leaves the tree alone
\* and emits exactly one event of level warn.
ScanMissingAlwaysWarnsOnce ==
    (call.op = "scan" /\ Kind(pre, call.root) = "none") =>
        /\ ret = <<>>
        /\ err = ""
        /\ fs = pre
        /\ Cardinality(Warnings(trace)) = 1

\* C8: scan of a root that does not exist returns an empty sequence, raises
\* nothing and leaves the tree alone; it emits one event, of level warn,
\* when there is no filter or the filter accepts root, and no event when the
\* filter rejects root.
ScanMissingWarnsWhenVisited ==
    (call.op = "scan" /\ Kind(pre, call.root) = "none") =>
        /\ ret = <<>>
        /\ err = ""
        /\ fs = pre
        /\ IF Accepts(call.filter, call.root)
           THEN trace = <<Log("warn", "notfound", call.root, 0)>> /\ Len(sink) = 1
           ELSE trace = <<>> /\ sink = <<>>

\* A scan with a filter that accepts the missing root.
ScanMissingWithFilter ==
    /\ call.op = "scan"
    /\ call.filter = "noext"
    /\ call.root = <<"a">>
    /\ Kind(pre, call.root) = "none"
    /\ Len(trace) = 1

-----------------------------------------------------------------------------
(* rmdir: what is deleted *)

Deleted == {p \in Paths : pre[p] # "none" /\ fs[p] = "none"}

FilesAndLinks == Contents \cup {"link", "dlink"}

\* The directory `d` holds a regular file the filter rejects.
HoldsRejectedFile(f, filter, d) ==
    \E n \in Names : IsRegular(f, Join(d, n)) /\ ~Accepts(filter, Join(d, n))

\* C2 as stated: after removeTree returns, every entry that was deleted is a
\* regular file or a symlink whose own path the filter accepted, and every
\* directory that holds a file the filter rejects is still there.
RemoveDeletesOnlyAcceptedFiles ==
    (call.op = "rmdir" /\ err = "") =>
        /\ \A p \in Deleted : pre[p] \in FilesAndLinks /\ Accepts(call.filter, p)
        /\ \A d \in Paths :
              (pre[d] = "dir" /\ HoldsRejectedFile(pre, call.filter, d)) => fs[d] = "dir"

\* C2: after removeTree returns, every entry that was deleted is a regular
\* file or a symlink whose own path the filter accepted, or a directory
\* whose own path the filter accepted and in which nothing was left; every
\* directory that holds a file the filter rejects is still there, and so is
\* that file.
RemoveDeletesOnlyAccepted ==
    (call.op = "rmdir" /\ err = "") =>
        /\ \A p \in Deleted :
              /\ Accepts(call.filter, p)
              /\ pre[p] \in FilesAndLinks \cup {"dir"}
              /\ pre[p] = "dir" => ~HasEntries(fs, p)
        /\ \A d \in Paths :
              (pre[d] = "dir" /\ HoldsRejectedFile(pre, call.filter, d)) =>
                  /\ fs[d] = "dir"
                  /\ HoldsRejectedFile(fs, call.filter, d)

\* A directory whose accepted file was deleted and whose rejected file, and
\* the directory with it, is still there.
RemoveKeepsDirectoryWithRejectedFile ==
    /\ call.op = "rmdir"
    /\ err = ""
    /\ \E d \in Paths : \E x, y \in Names :
          /\ pre[d] = "dir"
          /\ Accepts(call.filter, d)
          /\ IsRegular(pre, Join(d, x))
          /\ Join(d, x) \in Deleted
          /\ IsRegular(pre, Join(d, y))
          /\ ~Accepts(call.filter, Join(d, y))
          /\ fs[Join(d, y)] = pre[Join(d, y)]
          /\ fs[d] = "dir"

-----------------------------------------------------------------------------
(* rmdir: what is counted *)

\* C7: the number removeTree returns is the number of regular files and
\* symlinks the call deleted; the directories it removed are not counted,
\* and a root the filter rejects gives 0 and an unchanged tree.
RemoveCountsDeletedFiles ==
    (call.op = "rmdir" /\ err = "") =>
        /\ ret = Cardinality({p \in Deleted : pre[p] \in FilesAndLinks})
        /\ ~Accepts(call.filter, call.root) => (ret = 0 /\ fs = pre)

\* Two files deleted and counted, their directory removed and not counted,
\* with the traces on.
RemoveCountsWithCollapse ==
    /\ call.op = "rmdir"
    /\ err = ""
    /\ call.level = 1
    /\ ret = 2
    /\ \E d \in Deleted : pre[d] = "dir"

-----------------------------------------------------------------------------
(* rmdir: which directories are removed *)

\* C11: removeTree removes a directory only when no entry of any kind is left
\* in it: the removal of a directory never fails because the directory is
\* not empty, and every directory the call removed held nothing; a directory
\* that still holds an entry stays, without error.
RemoveCollapsesOnlyEmptyDirectories ==
    call.op = "rmdir" =>
        /\ err # "ENOTEMPTY"
        /\ \A d \in Deleted : pre[d] = "dir" => ~HasEntries(fs, d)

-----------------------------------------------------------------------------
(* copy *)

\* Neither path is the other or above it.
Apart(p, q) == ~IsPrefix(p, q) /\ ~IsPrefix(q, p)

\* Where the copy of the file `p` of `src` belongs under `dst`.
Replica(src, dst, p) ==
    IF p = src THEN Join(dst, Basename(p)) ELSE dst \o Relative(src, p)

\* The file at `p` holds the content `c`; what is written through a symlink
\* is in the target of the symlink, which stays a symlink.
Holds(p, c) == IF IsLink(pre, p) THEN fs[p] = "link" ELSE Kind(fs, p) = c

Replicated ==
    LET files == ReachableFiles(pre, call.fromDir)
    IN /\ \A p \in files : Holds(Replica(call.fromDir, call.toDir, p), pre[p])
       /\ \A p \in files : fs[p] = pre[p]
       /\ call.run = 2 => fs = pre

\* C3 as stated: after copyTree(src, dst) has returned, for every src and
\* dst, every regular file of scan(src) has a file with the same content at
\* its place under dst, the source files are unchanged, and a second
\* copyTree(src, dst) leaves the tree as the first left it.
CopyReplicatesEverywhere == (call.op = "copy" /\ err = "") => Replicated

\* C3: the same, for a src and a dst neither of which is the other or
\* above it.
CopyReplicatesApart ==
    (call.op = "copy" /\ err = "" /\ Apart(call.fromDir, call.toDir)) => Replicated

\* The second copy of a directory whose file is two levels down.
CopyTwiceKeepsState ==
    /\ call.op = "copy"
    /\ call.run = 2
    /\ err = ""
    /\ Apart(call.fromDir, call.toDir)
    /\ fs = pre
    /\ \E p \in ReachableFiles(pre, call.fromDir) :
          /\ Len(p) = Len(call.fromDir) + 2
          /\ Kind(fs, Replica(call.fromDir, call.toDir, p)) = pre[p]

-----------------------------------------------------------------------------
(* write and mkdir *)

\* The paths above `p`, "/" included.
Ancestors(p) == {SubSeq(p, 1, k) : k \in 0..(Len(p) - 1)}

\* Nothing above `p` is anything but a directory.
Clear(f, p) == \A q \in Ancestors(p) : Kind(f, q) \in {"none", "dir"}

\* mkdirSync and its event for every missing path above `p`, from the top.
RECURSIVE Creations(_, _, _)
Creations(f, p, k) ==
    IF k >= Len(p) THEN <<>>
    ELSE LET q == SubSeq(p, 1, k)
         IN (IF Kind(f, q) = "none"
             THEN <<Sys("mkdir", q), Log("info", "created", q, 0)>>
             ELSE <<>>) \o Creations(f, p, k + 1)

Made(t) == {i \in 1..Len(t) : t[i].k = "mkdir" \/ (IsLog(t[i]) /\ t[i].label = "created")}

\* C4: writeFile(path, content) with nothing but directories above path
\* creates the missing directories above it from the top down, each followed
\* by its 'created' event, then writes the file; the second writeFile to
\* the path creates no directory, emits no 'created' event and changes the
\* file alone; a path mkdir returned for is a directory, for which mkdir
\* does nothing.
WriteCreatesAncestorsFirst ==
    /\ (call.op = "write" /\ Clear(pre, call.filename)) =>
          /\ trace = Creations(pre, call.filename, 1)
                        \o <<Log("info", "writing", call.filename, 1)>>
                        \o (IF err = "" THEN <<Sys("write", call.filename)>> ELSE <<>>)
          /\ \A q \in Ancestors(call.filename) : fs[q] = "dir"
          /\ \A p \in Paths \ (Ancestors(call.filename) \cup {call.filename}) : fs[p] = pre[p]
          /\ Kind(pre, call.filename) \in Contents \cup {"none"} =>
                (err = "" /\ fs[call.filename] = call.content)
          /\ call.run = 2 =>
                /\ Made(trace) = {}
                /\ \A p \in Paths \ {call.filename} : fs[p] = pre[p]
    /\ (call.op = "mkdir" /\ err = "") =>
          /\ IsDirectory(fs, call.dir)
          /\ Mkdir(fs, call.dir) = Result(fs, <<>>, "")

\* The second write to a file two directories down, both made by the first,
\* with another content.
WriteTwiceCreatesOnce ==
    /\ call.op = "write"
    /\ call.run = 2
    /\ err = ""
    /\ Len(call.filename) = 3
    /\ Cardinality(Made(call.first)) = 4
    /\ Made(trace) = {}
    /\ pre[call.filename] # call.content
    /\ fs[call.filename] = call.content

\* A regular file is at `p` or above it.
Blocked(f, p) == \E q \in Chain(Root, p) : IsRegular(f, q)

\* C10: ensureDir of a path that is a regular file, or has one above it,
\* and writeFile below such a path, end in the error of mkdirSync with the
\* tree unchanged, no directory created and no event emitted.
MkdirCollisionIsFatal ==
    (\/ call.op = "mkdir" /\ Blocked(pre, call.dir)
     \/ call.op = "write" /\ call.filename # Root /\ Blocked(pre, Dirname(call.filename))) =>
        /\ err = "EEXIST"
        /\ fs = pre
        /\ trace = <<>>
        /\ sink = <<>>

\* writeFile two levels below a regular file.
WriteBelowFileFails ==
    /\ call.op = "write"
    /\ call.filename = <<"a", "a", "a">>
    /\ IsRegular(pre, <<"a">>)
    /\ err = "EEXIST"

-----------------------------------------------------------------------------
(* findUp *)

\* The directories findUp looks in: the resolved directory and all above it.
Looked == LET start == Resolve(call.directory) IN Chain(Root, start)

\* What findUp is to return when the directories `has` are those with the child.
Nearest(has) ==
    IF has = {} THEN NotFound
    ELSE LET best == CHOOSE d \in has : \A e \in has : Len(e) <= Len(d)
         IN IF call.asFile THEN Found(Join(best, call.filename)) ELSE Found(best)

\* C5 as stated: findUp returns the nearest directory, from the resolved
\* directory up to "/", that has an entry named filename, and not-found
\* exactly when none has.
FindUpNearestWithEntry ==
    call.op = "findUp" =>
        ret = Nearest({d \in Looked : Kind(fs, Join(d, call.filename)) # "none"})

\* C5: findUp returns the nearest directory, from the resolved directory up
\* to "/", that has an entry named filename which existsSync finds (any but
\* a dangling symlink), and not-found exactly when none has.
FindUpNearestExisting ==
    call.op = "findUp" =>
        ret = Nearest({d \in Looked : Exists(fs, Join(d, call.filename))})

\* The child is found one level up, below "/", from a directory given with "..".
FindUpClimbs ==
    /\ call.op = "findUp"
    /\ ~call.asFile
    /\ Len(call.directory) = 3
    /\ call.directory[3] = ".."
    /\ ret.found
    /\ Len(ret.path) = 1

-----------------------------------------------------------------------------
(* log *)

\* The record log builds.
Built(level, name, label) ==
    [level |-> level, label |-> label, name |-> IF name = "" THEN "jfFileSystem" ELSE name,
     p |-> Root, n |-> 0, styled |-> FALSE]

====
